---- MODULE Spec2Model ----
(***************************************************************************)
(* The minimax engine of the AI service (ai-engine/app/engine/minimax.py)  *)
(* as a state machine.  The rules engine (python-chess) is an external     *)
(* collaborator: it is modelled by a finite game tree ("world") that fixes *)
(* for every position the side to move, the terminal status, the pieces on *)
(* the board and the legal moves with their successor positions.           *)
(*                                                                         *)
(* State: the engine instance (depth, nodes_searched, pv), and for each    *)
(* caller thread the locals of get_best_move and the stack of _minimax     *)
(* activations.  One action per step of get_best_move / _minimax.          *)
(***************************************************************************)
EXTENDS Integers, Sequences, FiniteSets, TLC

\* world:  the game tree the rules engine answers from (fixed in a behaviour)
\* engine: the MinimaxEngine instance: depth, nodes_searched, pv
\* thr:    per caller thread, the locals of get_best_move, the stack of
\*         _minimax activations (frames), the returned result, and acts, the
\*         number of _minimax activations of the thread's current invocation
\* calls:  the number of get_best_move invocations started
\* hist:   per search depth, the node count the last finished invocation of
\*         that depth reported (-1: none yet)
VARIABLES world, engine, thr, calls, hist

vars == <<world, engine, thr, calls, hist>>

(***************************************************************************)
(* Bounds of the model.                                                    *)
(***************************************************************************)
\* largest search depth an engine is constructed with
MaxDepth == 4
\* number of get_best_move invocations in one behaviour
MaxCalls == 2
\* number of caller threads that may share the engine
NumThreads == 2

(***************************************************************************)
(* Program constants.                                                      *)
(***************************************************************************)
\* float('inf'): larger than every attainable score
Inf == 1000000
\* the checkmate score of _evaluate
MateScore == 20000
\* the weight of one legal move in the mobility bonus
MobilityWeight == 10
\* best_score / 100.0
CentipawnsPerPawn == 100

WHITE == TRUE
BLACK == FALSE

\* best_move = None: no move
None == [from_square |-> -1, to_square |-> -1]

PAWN == 1
KNIGHT == 2
BISHOP == 3
ROOK == 4
QUEEN == 5
KING == 6

PIECE_VALUES == <<100, 320, 330, 500, 900, 20000>>

PAWN_TABLE ==
    << 0,  0,  0,  0,  0,  0,  0,  0,
       50, 50, 50, 50, 50, 50, 50, 50,
       10, 10, 20, 30, 30, 20, 10, 10,
       5,  5, 10, 25, 25, 10,  5,  5,
       0,  0,  0, 20, 20,  0,  0,  0,
       5, -5,-10,  0,  0,-10, -5,  5,
       5, 10, 10,-20,-20, 10, 10,  5,
       0,  0,  0,  0,  0,  0,  0,  0 >>

KNIGHT_TABLE ==
    << -50,-40,-30,-30,-30,-30,-40,-50,
       -40,-20,  0,  0,  0,  0,-20,-40,
       -30,  0, 10, 15, 15, 10,  0,-30,
       -30,  5, 15, 20, 20, 15,  5,-30,
       -30,  0, 15, 20, 20, 15,  0,-30,
       -30,  5, 10, 15, 15, 10,  5,-30,
       -40,-20,  0,  5,  5,  0,-20,-40,
       -50,-40,-30,-30,-30,-30,-40,-50 >>

Max(a, b) == IF a >= b THEN a ELSE b
Min(a, b) == IF a <= b THEN a ELSE b

(***************************************************************************)
(* The position oracle (chess.Board).  A world is [turn, tree]: the side   *)
(* to move at the root and the tree of positions.  A tree node is          *)
(* [st, n, kids]: st is the terminal status ("none", "checkmate",          *)
(* "stalemate", "insufficient", or "draw" for the seventy-five-move and    *)
(* fivefold-repetition ends), n the number of legal moves, kids the        *)
(* successor positions of the legal moves that a search can play (a        *)
(* position that is over is never expanded).  A position is named by the   *)
(* path of move indices from the root.                                     *)
(***************************************************************************)
RECURSIVE NodeAt(_, _)
NodeAt(tree, path) ==
    IF path = <<>> THEN tree
    ELSE NodeAt(tree.kids[Head(path)], Tail(path))

Node(board) == NodeAt(world.tree, board.node)

\* board.turn: the sides alternate along the path
Turn(board) == IF Len(board.node) % 2 = 0 THEN world.turn ELSE ~world.turn

IsCheckmate(board) == Node(board).st = "checkmate"
IsStalemate(board) == Node(board).st = "stalemate"
IsInsufficientMaterial(board) == Node(board).st = "insufficient"
IsGameOver(board) == Node(board).st # "none"

\* The k-th legal move of a position at ply `level`: a chess.Move
MoveAt(level, k) ==
    [from_square |-> 8 * level + (k - 1), to_square |-> 8 * (level + 1) + (k - 1)]

\* list(board.legal_moves)
LegalMoves(board) ==
    [k \in 1..Node(board).n |-> MoveAt(Len(board.node), k)]

\* chess.Board(fen): the position named by the FEN, with an empty move stack
Board(fen) == [node |-> fen, move_stack |-> <<>>]

\* board.push(move)
Push(board, move) ==
    [node |-> Append(board.node, (move.from_square % 8) + 1),
     move_stack |-> Append(board.move_stack, move)]

\* board.pop()
Pop(board) ==
    [node |-> SubSeq(board.node, 1, Len(board.node) - 1),
     move_stack |-> SubSeq(board.move_stack, 1, Len(board.move_stack) - 1)]

FILE_NAMES == <<"a", "b", "c", "d", "e", "f", "g", "h">>
RANK_NAMES == <<"1", "2", "3", "4", "5", "6", "7", "8">>

SquareName(sq) == <<FILE_NAMES[(sq % 8) + 1], RANK_NAMES[(sq \div 8) + 1]>>

UciSwapped(move) == SquareName(move.to_square) \o SquareName(move.from_square)
\* move.uci(): the from-square, then the to-square
Uci(move) == SquareName(move.from_square) \o SquareName(move.to_square)

(***************************************************************************)
(* The pieces of a position: a list of [piece_type, color, square].        *)
(* Positions that are over carry the material typical of their status;     *)
(* the other positions take one of three placements by their path.         *)
(***************************************************************************)
Piece(t, c, sq) == [piece_type |-> t, color |-> c, square |-> sq]

Kings == <<Piece(KING, WHITE, 4), Piece(KING, BLACK, 60)>>

RECURSIVE SumSeq(_)
SumSeq(s) == IF s = <<>> THEN 0 ELSE Head(s) + SumSeq(Tail(s))

PathPlacement(path) ==
    LET c == (Len(path) + SumSeq(path)) % 3 IN
    IF c = 0 THEN Kings
    ELSE IF c = 1 THEN Kings \o <<Piece(PAWN, WHITE, 28), Piece(BISHOP, WHITE, 2)>>
    ELSE Kings \o <<Piece(KNIGHT, BLACK, 42), Piece(PAWN, BLACK, 52), Piece(PAWN, WHITE, 12)>>

Pieces(board) ==
    LET st == Node(board).st
        mover == Turn(board)
    IN  IF st = "checkmate" THEN Kings \o <<Piece(ROOK, ~mover, 24)>>
        ELSE IF st = "stalemate" THEN Kings \o <<Piece(QUEEN, ~mover, 19)>>
        ELSE IF st = "insufficient" THEN Kings \o <<Piece(KNIGHT, WHITE, 18)>>
        ELSE PathPlacement(board.node)

(***************************************************************************)
(* _evaluate                                                               *)
(***************************************************************************)
PieceScore(piece) ==
    LET value == PIECE_VALUES[piece.piece_type]
        idx == IF piece.color THEN piece.square ELSE 63 - piece.square
        pos_bonus == IF piece.piece_type = PAWN THEN PAWN_TABLE[idx + 1]
                     ELSE IF piece.piece_type = KNIGHT THEN KNIGHT_TABLE[idx + 1]
                     ELSE 0
        total_value == value + pos_bonus
    IN  IF piece.color = WHITE THEN total_value ELSE -total_value

RECURSIVE MaterialScore(_)
MaterialScore(pieces) ==
    IF pieces = <<>> THEN 0
    ELSE PieceScore(Head(pieces)) + MaterialScore(Tail(pieces))

Mobility(board) ==
    IF Turn(board) = WHITE THEN Len(LegalMoves(board)) * MobilityWeight
    ELSE -Len(LegalMoves(board)) * MobilityWeight

EvaluateNoDrawCheck(board) ==
    IF IsCheckmate(board) THEN (IF Turn(board) THEN -MateScore ELSE MateScore)
    ELSE MaterialScore(Pieces(board)) + Mobility(board)

Evaluate(board) ==
    IF IsCheckmate(board) THEN (IF Turn(board) THEN -MateScore ELSE MateScore)
    ELSE IF IsStalemate(board) \/ IsInsufficientMaterial(board) THEN 0
    ELSE MaterialScore(Pieces(board)) + Mobility(board)

(***************************************************************************)
(* The worlds a behaviour starts from: every game of at most two plies     *)
(* with at most two legal moves per position, and every labelling, with    *)
(* the four kinds of finished position, of the leaves of four deeper game  *)
(* trees in which the search window closes (lines 134 and 148).            *)
(***************************************************************************)
LeafKinds == {"checkmate", "stalemate", "insufficient", "draw"}

\* legal moves of a finished position: none when mated or stalemated
LeafMoves(st) ==
    IF st \in {"checkmate", "stalemate"} THEN 0
    ELSE IF st = "insufficient" THEN 3 ELSE 2

Leaf(st) == [st |-> st, n |-> LeafMoves(st), kids |-> <<>>]
Inner(kids) == [st |-> "none", n |-> Len(kids), kids |-> kids]

\* a finished position
TreesOver == {Leaf(a) : a \in LeafKinds}
\* the games of at most one ply
TreesOnePly ==
    TreesOver \cup {Inner(<<a>>) : a \in TreesOver}
        \cup {Inner(<<a, b>>) : a, b \in TreesOver}
\* the games of at most two plies
TreesTwoPly ==
    TreesOver \cup {Inner(<<a>>) : a \in TreesOnePly}
        \cup {Inner(<<a, b>>) : a, b \in TreesOnePly}
\* one line; at ply 2 a finished reply and a reply with two continuations
TreesBetaCut ==
    {Inner(<<Inner(<<Leaf(a), Inner(<<Leaf(b), Leaf(c)>>)>>)>>) :
        a, b, c \in LeafKinds}
\* two root moves; the second is searched inside the window of the first
TreesRootWindow ==
    {Inner(<<Inner(<<Leaf(a)>>), Inner(<<Inner(<<Leaf(b), Leaf(c)>>)>>)>>) :
        a, b, c \in LeafKinds}
\* a finished position and one with two continuations at ply 3
TreesAlphaCut ==
    {Inner(<<Inner(<<Inner(<<Leaf(a), Inner(<<Leaf(b), Leaf(c)>>)>>)>>)>>) :
        a, b, c \in LeafKinds}
\* three continuations at ply 3, the first of them one ply deeper
TreesWide ==
    {Inner(<<Inner(<<Leaf(a),
                     Inner(<<Inner(<<Leaf(b)>>), Leaf(c), Leaf(d)>>)>>)>>) :
        a, b, c, d \in LeafKinds}

\* three root moves, each answered by one reply; the last reply has two
\* continuations and is searched inside the window of the first two
TreesSiblings ==
    {Inner(<<Inner(<<Inner(<<Leaf(a)>>)>>), Inner(<<Inner(<<Leaf(b)>>)>>),
             Inner(<<Inner(<<Leaf(c), Leaf(d)>>)>>)>>) :
        a, b, c, d \in LeafKinds}

Trees ==
    TreesTwoPly \cup TreesBetaCut \cup TreesRootWindow
        \cup TreesAlphaCut \cup TreesWide

Worlds == [turn : {WHITE, BLACK}, tree : Trees]

\* the FEN handed to get_best_move names the root position of the world
Fens == {<<>>}

(***************************************************************************)
(* Engine and caller state.                                                *)
(***************************************************************************)
\* MinimaxEngine.__init__
NewEngine(depth) == [depth |-> depth, nodes_searched |-> 0, pv |-> <<>>]

NoResult ==
    [status |-> "none", move |-> <<>>, score |-> <<0, 1>>, depth |-> 0,
     nodes |-> 0, pv |-> <<>>, fallback |-> FALSE]

\* a caller that is not inside get_best_move; scores records, for the
\* properties only, the score line 83 received for each root move so far
IdleThread ==
    [pc |-> "idle", fen |-> <<>>, board |-> Board(<<>>), legal_moves |-> <<>>,
     i |-> 1, best_move |-> None, best_score |-> -Inf, alpha |-> -Inf,
     beta |-> Inf, frames |-> <<>>, result |-> NoResult, acts |-> 0,
     scores |-> <<>>]

\* raise ValueError(message): get_best_move ends without a result
Raise(message, fen) ==
    [IdleThread EXCEPT !.pc = "done", !.fen = fen,
                       !.result = [NoResult EXCEPT !.status = message]]

\* a fresh _minimax activation: its parameters, before line 116
NewFrame(depth, alpha, beta, maximizing, board) ==
    [pc |-> "enter", depth |-> depth, alpha |-> alpha, beta |-> beta,
     maximizing |-> maximizing, legal_moves |-> <<>>, i |-> 1, best |-> 0,
     tmp |-> 0, ret |-> 0, leaf |-> FALSE, cut |-> FALSE, entry |-> board]

Top(t) == thr[t].frames[Len(thr[t].frames)]

SetTop(frames, f) == [frames EXCEPT ![Len(frames)] = f]

DropTop(frames) == SubSeq(frames, 1, Len(frames) - 1)

Threads == 1..NumThreads

\* a thread that takes no part in the behaviour
OffThread == [IdleThread EXCEPT !.pc = "off"]

Range(s) == {s[k] : k \in DOMAIN s}

NoHistory == [d \in 1..MaxDepth |-> -1]

InitOn(ws, ts) ==
    /\ world \in ws
    /\ engine \in {NewEngine(d) : d \in 1..MaxDepth}
    /\ thr = [t \in Threads |-> IF t \in ts THEN IdleThread ELSE OffThread]
    /\ calls = 0
    /\ hist = NoHistory

Init == InitOn(Worlds, {1})

(***************************************************************************)
(* get_best_move                                                           *)
(***************************************************************************)
KeepStats(e) == e
\* lines 64-65: self.nodes_searched = 0; self.pv = []
ResetStats(e) == [e EXCEPT !.nodes_searched = 0, !.pv = <<>>]

\* lines 63-79: parse, reset the statistics, reject a finished position,
\* list the legal moves and set up the root loop
GetBestMove(t, fen) ==
    /\ thr[t].pc \in {"idle", "done"}
    /\ calls < MaxCalls
    /\ LET board == Board(fen)
           legal_moves == LegalMoves(board)
       IN  thr' = [thr EXCEPT ![t] =
                IF IsGameOver(board) THEN Raise("Game is over", fen)
                ELSE IF legal_moves = <<>>
                     THEN Raise("No legal moves available", fen)
                ELSE [IdleThread EXCEPT !.pc = "root", !.fen = fen,
                                        !.board = board,
                                        !.legal_moves = legal_moves]]
    /\ engine' = ResetStats(engine)
    /\ calls' = calls + 1
    /\ UNCHANGED <<world, hist>>

RootWindowSame(alpha, beta) == [alpha |-> alpha, beta |-> beta]
\* line 83: the window handed to the child is (-beta, -alpha)
RootWindow(alpha, beta) == [alpha |-> -beta, beta |-> -alpha]

\* lines 81-83: the next root move is pushed and _minimax is called
RootCall(t) ==
    LET r == thr[t] IN
    /\ r.pc = "root"
    /\ r.i <= Len(r.legal_moves)
    /\ LET board == Push(r.board, r.legal_moves[r.i])
           w == RootWindow(r.alpha, r.beta)
       IN  thr' = [thr EXCEPT ![t] =
                [r EXCEPT !.pc = "mm", !.board = board,
                          !.frames = <<NewFrame(engine.depth - 1, w.alpha,
                                                w.beta, FALSE, board)>>]]
    /\ UNCHANGED <<world, engine, calls, hist>>

RootUpdateNever(r, move, score) ==
    [r EXCEPT !.alpha = Max(r.alpha, score)]
RootUpdateLastWins(r, move, score) ==
    [r EXCEPT !.best_score = IF score >= r.best_score THEN score ELSE r.best_score,
              !.best_move = IF score >= r.best_score THEN move ELSE r.best_move,
              !.alpha = Max(r.alpha, score)]
\* lines 86-90: keep the strictly better move, raise alpha
RootUpdate(r, move, score) ==
    [r EXCEPT !.best_score = IF score > r.best_score THEN score ELSE r.best_score,
              !.best_move = IF score > r.best_score THEN move ELSE r.best_move,
              !.alpha = Max(r.alpha, score)]

\* lines 83-90: _minimax has returned to the root loop
RootReceive(t) ==
    LET r == thr[t] IN
    /\ r.pc = "mm"
    /\ Len(r.frames) = 1
    /\ Top(t).pc = "return"
    /\ LET score == -Top(t).ret
           popped == [r EXCEPT !.board = Pop(r.board), !.frames = <<>>,
                               !.pc = "root", !.i = r.i + 1,
                               !.scores = Append(r.scores, score)]
       IN  thr' = [thr EXCEPT ![t] = RootUpdate(popped, r.legal_moves[r.i], score)]
    /\ UNCHANGED <<world, engine, calls, hist>>

\* best_score / 100.0, kept as the quotient's numerator and denominator
ToPawns(centipawns) == <<centipawns, CentipawnsPerPawn>>

\* lines 97-103: the returned tuple
PackResult(best_move, best_score, fallback) ==
    [status |-> "ok", move |-> Uci(best_move), score |-> ToPawns(best_score),
     depth |-> engine.depth, nodes |-> engine.nodes_searched,
     pv |-> <<Uci(best_move)>>, fallback |-> fallback]

\* lines 92-103: the loop is over; the fallback picks any legal move
RootFinish(t) ==
    LET r == thr[t] IN
    /\ r.pc = "root"
    /\ r.i > Len(r.legal_moves)
    /\ \E best_move \in (IF r.best_move = None THEN Range(r.legal_moves)
                         ELSE {r.best_move}) :
          LET fallback == r.best_move = None
              best_score == IF fallback THEN 0 ELSE r.best_score
          IN  thr' = [thr EXCEPT ![t] =
                  [IdleThread EXCEPT
                      !.pc = "done", !.fen = r.fen, !.acts = r.acts,
                      !.board = r.board,
                      !.result = PackResult(best_move, best_score, fallback)]]
    /\ hist' = [hist EXCEPT ![engine.depth] = engine.nodes_searched]
    /\ UNCHANGED <<world, engine, calls>>

(***************************************************************************)
(* _minimax                                                                *)
(***************************************************************************)
\* line 116, first half: self.nodes_searched is read
MinimaxEnter(t) ==
    LET r == thr[t] IN
    /\ r.pc = "mm"
    /\ Top(t).pc = "enter"
    /\ thr' = [thr EXCEPT ![t] =
            [r EXCEPT !.acts = r.acts + 1,
                      !.frames = SetTop(r.frames,
                          [Top(t) EXCEPT !.pc = "count",
                                         !.tmp = engine.nodes_searched])]]
    /\ UNCHANGED <<world, engine, calls, hist>>

\* lines 119-125, 139: a leaf is evaluated, an inner node starts its loop
Body(f, board) ==
    IF f.depth = 0 \/ IsGameOver(board)
    THEN [f EXCEPT !.pc = "return", !.leaf = TRUE, !.ret = Evaluate(board)]
    ELSE [f EXCEPT !.pc = "loop", !.legal_moves = LegalMoves(board), !.i = 1,
                   !.best = IF f.maximizing THEN -Inf ELSE Inf]

\* line 116, second half: the sum is stored; then lines 119-125, 139
MinimaxCount(t) ==
    LET r == thr[t] IN
    /\ r.pc = "mm"
    /\ Top(t).pc = "count"
    /\ engine' = [engine EXCEPT !.nodes_searched = Top(t).tmp + 1]
    /\ thr' = [thr EXCEPT ![t] =
            [r EXCEPT !.frames = SetTop(r.frames, Body(Top(t), r.board))]]
    /\ UNCHANGED <<world, calls, hist>>

\* lines 126-128 and 140-142: the next move is pushed and searched
MinimaxCall(t) ==
    LET r == thr[t]
        f == Top(t)
    IN  /\ r.pc = "mm"
        /\ f.pc = "loop"
        /\ f.i <= Len(f.legal_moves)
        /\ LET board == Push(r.board, f.legal_moves[f.i]) IN
           thr' = [thr EXCEPT ![t] =
               [r EXCEPT !.board = board,
                         !.frames = Append(r.frames,
                             NewFrame(f.depth - 1, f.alpha, f.beta,
                                      ~f.maximizing, board))]]
        /\ UNCHANGED <<world, engine, calls, hist>>

\* lines 137 and 151: the loop is over (exhausted or cut), the best is returned
MinimaxLoopEnd(t) ==
    LET r == thr[t]
        f == Top(t)
    IN  /\ r.pc = "mm"
        /\ f.pc = "loop"
        /\ f.i > Len(f.legal_moves)
        /\ thr' = [thr EXCEPT ![t] =
               [r EXCEPT !.frames = SetTop(r.frames,
                             [f EXCEPT !.pc = "return", !.ret = f.best])]]
        /\ UNCHANGED <<world, engine, calls, hist>>

MaxStepBreakBeforePop(f, board, eval_score) ==
    LET alpha == Max(f.alpha, eval_score) IN
    [board |-> IF f.beta <= alpha THEN board ELSE Pop(board),
     frame |-> [f EXCEPT !.best = Max(f.best, eval_score), !.alpha = alpha,
                         !.cut = f.beta <= alpha,
                         !.i = IF f.beta <= alpha THEN Len(f.legal_moves) + 1
                               ELSE f.i + 1]]

\* lines 129-135: pop, max_eval, alpha, beta cutoff
MaxStep(f, board, eval_score) ==
    LET alpha == Max(f.alpha, eval_score) IN
    [board |-> Pop(board),
     frame |-> [f EXCEPT !.best = Max(f.best, eval_score), !.alpha = alpha,
                         !.cut = f.beta <= alpha,
                         !.i = IF f.beta <= alpha THEN Len(f.legal_moves) + 1
                               ELSE f.i + 1]]

MinStepCutOnScore(f, board, eval_score) ==
    LET beta == Min(f.beta, eval_score) IN
    [board |-> Pop(board),
     frame |-> [f EXCEPT !.best = Min(f.best, eval_score), !.beta = beta,
                         !.cut = beta <= eval_score,
                         !.i = IF beta <= eval_score THEN Len(f.legal_moves) + 1
                               ELSE f.i + 1]]

\* lines 143-149: pop, min_eval, beta, alpha cutoff
MinStep(f, board, eval_score) ==
    LET beta == Min(f.beta, eval_score) IN
    [board |-> Pop(board),
     frame |-> [f EXCEPT !.best = Min(f.best, eval_score), !.beta = beta,
                         !.cut = beta <= f.alpha,
                         !.i = IF beta <= f.alpha THEN Len(f.legal_moves) + 1
                               ELSE f.i + 1]]

\* a recursive call returns into the loop of its caller
MinimaxReturn(t) ==
    LET r == thr[t]
        f == Top(t)
    IN  /\ r.pc = "mm"
        /\ Len(r.frames) >= 2
        /\ f.pc = "return"
        /\ LET caller == r.frames[Len(r.frames) - 1]
               step == IF caller.maximizing THEN MaxStep(caller, r.board, f.ret)
                       ELSE MinStep(caller, r.board, f.ret)
           IN  thr' = [thr EXCEPT ![t] =
                   [r EXCEPT !.board = step.board,
                             !.frames = SetTop(DropTop(r.frames), step.frame)]]
        /\ UNCHANGED <<world, engine, calls, hist>>

\* MinimaxEngine(depth): a caller that searches deeper builds a new engine
Construct ==
    /\ \A t \in Threads : thr[t].pc \in {"off", "idle", "done"}
    /\ \E t \in Threads : thr[t].pc = "done"
    /\ calls < MaxCalls
    /\ engine.depth < MaxDepth
    /\ engine' = NewEngine(engine.depth + 1)
    /\ UNCHANGED <<world, thr, calls, hist>>

Next ==
    \/ \E t \in Threads :
          \/ \E fen \in Fens : GetBestMove(t, fen)
          \/ RootCall(t)
          \/ RootReceive(t)
          \/ RootFinish(t)
          \/ MinimaxEnter(t)
          \/ MinimaxCount(t)
          \/ MinimaxCall(t)
          \/ MinimaxLoopEnd(t)
          \/ MinimaxReturn(t)
    \/ Construct

Spec == Init /\ [][Next]_vars

(***************************************************************************)
(* Two caller threads share the engine, as the requests of the service     *)
(* share the module-level minimax_engine; their steps interleave.          *)
(***************************************************************************)
\* two root moves: one ends the game, the other has one reply
TreesShared == {Inner(<<a, Inner(<<b>>)>>) : a, b \in TreesOver}

WorldsShared == [turn : {WHITE, BLACK}, tree : TreesShared]

InitShared == InitOn(WorldsShared, Threads)

SpecShared == InitShared /\ [][Next]_vars

(***************************************************************************)
(* One caller on the games of Spec and on the games with three root moves. *)
(***************************************************************************)
WorldsSiblings == [turn : {WHITE, BLACK}, tree : Trees \cup TreesSiblings]

InitSiblings == InitOn(WorldsSiblings, {1})

SpecSiblings == InitSiblings /\ [][Next]_vars

(***************************************************************************)
(* A rules engine that breaks its contract: it reports a position as not   *)
(* over (is_game_over() is False) and lists no legal move for it.          *)
(* python-chess itself never answers so (no legal move means checkmate or  *)
(* stalemate); these worlds stand for a faulty or substituted oracle, the  *)
(* case lines 119-151 have no guard for.                                   *)
(***************************************************************************)
\* a position that is not over and has no legal move
Stuck == [st |-> "none", n |-> 0, kids |-> <<>>]

RECURSIVE HasStuck(_)
HasStuck(tree) ==
    \/ tree = Stuck
    \/ \E k \in DOMAIN tree.kids : HasStuck(tree.kids[k])

TreesOverOrStuck == TreesOver \cup {Stuck}

\* games of at most two plies in which some position is stuck
TreesBrokenOracle ==
    {tr \in {Stuck} \cup {Inner(<<a>>) : a \in TreesOverOrStuck}
            \cup {Inner(<<a, Inner(<<b, c>>)>>) : a, b, c \in TreesOverOrStuck}
            \cup {Inner(<<Inner(<<b, c>>), a>>) : a, b, c \in TreesOverOrStuck} :
        HasStuck(tr)}

WorldsBrokenOracle == [turn : {WHITE, BLACK}, tree : TreesBrokenOracle]

InitBrokenOracle == InitOn(WorldsBrokenOracle, {1})

SpecBrokenOracle == InitBrokenOracle /\ [][Next]_vars

(***************************************************************************)
(* Reference definitions used by the properties.                           *)
(***************************************************************************)
\* get_best_move of thread t has returned a result
Returned(t) == thr[t].pc = "done" /\ thr[t].result.status = "ok"

\* the position the FEN of thread t names
RootBoard(t) == Board(thr[t].fen)

\* the position after the k-th legal move of board b
After(b, k) == Push(b, LegalMoves(b)[k])

\* the text python-chess gives a move: from-square then to-square
MoveText(m) == SquareName(m.from_square) \o SquareName(m.to_square)

\* the indices of the root moves whose text is the returned move
ReturnedIndices(t) ==
    {k \in DOMAIN LegalMoves(RootBoard(t)) :
        MoveText(LegalMoves(RootBoard(t))[k]) = thr[t].result.move}

RECURSIVE SetMax(_)
SetMax(S) ==
    LET x == CHOOSE y \in S : TRUE IN
    IF S = {x} THEN x ELSE Max(x, SetMax(S \ {x}))

RECURSIVE SetMin(_)
SetMin(S) ==
    LET x == CHOOSE y \in S : TRUE IN
    IF S = {x} THEN x ELSE Min(x, SetMin(S \ {x}))

\* fixed-depth classic minimax over _evaluate: white-perspective scores,
\* white-to-move positions maximise, black-to-move positions minimise
RECURSIVE ClassicValue(_, _)
ClassicValue(b, depth) ==
    IF depth = 0 \/ IsGameOver(b) THEN Evaluate(b)
    ELSE LET vals == {ClassicValue(After(b, k), depth - 1) :
                         k \in DOMAIN LegalMoves(b)}
         IN  IF Turn(b) = WHITE THEN SetMax(vals) ELSE SetMin(vals)

\* the value of _minimax(b, depth, ., ., maximizing) with both cutoffs removed
RECURSIVE FullValue(_, _, _)
FullValue(b, depth, maximizing) ==
    IF depth = 0 \/ IsGameOver(b) THEN Evaluate(b)
    ELSE LET vals == {FullValue(After(b, k), depth - 1, ~maximizing) :
                         k \in DOMAIN LegalMoves(b)}
         IN  IF maximizing THEN SetMax(vals) ELSE SetMin(vals)

\* the best score of the root loop of get_best_move with both cutoffs removed
FullBestScore(b, depth) ==
    SetMax({-FullValue(After(b, k), depth - 1, FALSE) : k \in DOMAIN LegalMoves(b)})

RECURSIVE SumOver(_, _, _, _)
\* the number of _minimax activations below b with both cutoffs removed
FullCount(b, depth) ==
    IF depth = 0 \/ IsGameOver(b) THEN 1
    ELSE 1 + SumOver(b, depth, 1, Len(LegalMoves(b)))
SumOver(b, depth, k, n) ==
    IF k > n THEN 0
    ELSE FullCount(After(b, k), depth - 1) + SumOver(b, depth, k + 1, n)

\* the activations of a whole get_best_move call with both cutoffs removed
FullRootCount(b, depth) == SumOver(b, depth, 1, Len(LegalMoves(b)))

(***************************************************************************)
(* C1: the move get_best_move returns is the text of one of the legal      *)
(* moves of the root position.                                             *)
(***************************************************************************)
C1_ReturnedMoveIsLegal ==
    \A t \in Threads :
        Returned(t) =>
            thr[t].result.move \in
                {MoveText(m) : m \in Range(LegalMoves(RootBoard(t)))}

\* a search of depth 3 or more returned, with two root moves to choose from
C1_Witness ==
    \E t \in Threads :
        /\ Returned(t)
        /\ thr[t].result.depth >= 3
        /\ Len(LegalMoves(RootBoard(t))) = 2
        /\ Node(After(RootBoard(t), 1)).st = "none"

(***************************************************************************)
(* C2: when a root move mates in one ply, get_best_move returns a mating   *)
(* move and reports a score of at least 20000 centipawns (200.0) for the   *)
(* mover.  [The code fails this with white to move.]                       *)
(***************************************************************************)
MatingMoves(b) == {k \in DOMAIN LegalMoves(b) : IsCheckmate(After(b, k))}

C2_MateInOneIsPlayed ==
    \A t \in Threads :
        (Returned(t) /\ MatingMoves(RootBoard(t)) # {}) =>
            /\ ReturnedIndices(t) \subseteq MatingMoves(RootBoard(t))
            /\ thr[t].result.score[1] >= MateScore
            /\ thr[t].result.score[2] = CentipawnsPerPawn

(***************************************************************************)
(* C3: the returned move is optimal for the side to move under fixed-depth *)
(* classic minimax: no other root move has a strictly better value.        *)
(* [The code fails this: the root negates and maximises white-perspective  *)
(* scores and always starts the recursion as a minimising node.]           *)
(***************************************************************************)
RootMoveValue(t, k) ==
    ClassicValue(After(RootBoard(t), k), thr[t].result.depth - 1)

C3_ReturnedMoveIsOptimal ==
    \A t \in Threads :
        Returned(t) =>
            \A k \in ReturnedIndices(t) :
                \A j \in DOMAIN LegalMoves(RootBoard(t)) :
                    IF Turn(RootBoard(t)) = WHITE
                    THEN RootMoveValue(t, j) <= RootMoveValue(t, k)
                    ELSE RootMoveValue(t, j) >= RootMoveValue(t, k)

(***************************************************************************)
(* C4: the best score found with alpha-beta pruning equals the best score  *)
(* of the same search with both cutoffs removed.                           *)
(***************************************************************************)
C4_PrunedScoreIsFullScore ==
    \A t \in Threads :
        Returned(t) =>
            thr[t].result.score =
                <<FullBestScore(RootBoard(t), thr[t].result.depth), 100>>

\* a search returned that visited fewer positions than the full enumeration
C4_Witness ==
    \E t \in Threads :
        /\ Returned(t)
        /\ thr[t].result.nodes < FullRootCount(RootBoard(t), thr[t].result.depth)

(***************************************************************************)
(* C5: when a _minimax activation returns, the board is what it was when   *)
(* the activation started, also when its loop was left by a cutoff; when   *)
(* get_best_move returns, the board is the position parsed from the input. *)
(***************************************************************************)
C5_BoardRestored ==
    \A t \in Threads :
        /\ (thr[t].pc = "mm" /\ Top(t).pc = "return") => thr[t].board = Top(t).entry
        /\ Returned(t) => thr[t].board = [node |-> thr[t].fen, move_stack |-> <<>>]

\* an activation whose loop was left by a cutoff is returning
C5_Witness ==
    \E t \in Threads :
        /\ thr[t].pc = "mm"
        /\ Top(t).pc = "return"
        /\ Top(t).cut
        /\ Top(t).i <= Len(Top(t).legal_moves) + 1
        /\ Len(Top(t).legal_moves) >= 2

(***************************************************************************)
(* C6, as stated: for a fixed root position the node count reported at     *)
(* depth d+1 is at least the node count reported at depth d, for every     *)
(* d >= 1.  [Fails from d = 3 on: a deeper search can cut more.]           *)
(***************************************************************************)
C6_NodeGrowth ==
    \A d \in 1..(MaxDepth - 1) :
        (hist[d] >= 0 /\ hist[d + 1] >= 0) => hist[d + 1] >= hist[d]

\* some position d plies below b is reached through positions that are not
\* over and is itself not over
RECURSIVE HasOpen(_, _)
HasOpen(b, d) ==
    IF IsGameOver(b) THEN FALSE
    ELSE IF d = 0 THEN TRUE
    ELSE \E k \in DOMAIN LegalMoves(b) : HasOpen(After(b, k), d - 1)

(***************************************************************************)
(* C6, amended: for d = 1 and d = 2 the node count reported at depth d+1   *)
(* is at least the one reported at depth d, and strictly greater whenever  *)
(* a position d plies below the root, reached through positions that are   *)
(* not over, is itself not over.                                           *)
(***************************************************************************)
C6_NodeGrowthShallow ==
    \A d \in {1, 2} :
        (d + 1 <= MaxDepth /\ hist[d] >= 0 /\ hist[d + 1] >= 0) =>
            /\ hist[d + 1] >= hist[d]
            /\ HasOpen(Board(<<>>), d) => hist[d + 1] > hist[d]

\* the same root was searched at depth 2 and at depth 3, which saw more
C6_Witness == hist[2] >= 0 /\ hist[3] > hist[2]

(***************************************************************************)
(* C7: with sequential invocations on one engine, each invocation reports  *)
(* exactly the number of _minimax activations it performed.                *)
(***************************************************************************)
C7_NodesCountActivations ==
    \A t \in Threads : Returned(t) => thr[t].result.nodes = thr[t].acts

\* the second invocation on the same engine returned
C7_Witness ==
    \E t \in Threads :
        /\ Returned(t)
        /\ calls = 2
        /\ Cardinality({d \in DOMAIN hist : hist[d] >= 0}) = 1
        /\ thr[t].result.nodes >= 2

(***************************************************************************)
(* C8: when the steps of two invocations on the same engine interleave,    *)
(* each invocation reports the number of activations it performed itself.  *)
(* [The code fails this: nodes_searched is a field of the shared engine.]  *)
(***************************************************************************)
C8_NodesCountOwnActivations ==
    \A t \in Threads :
        (thr[t].pc = "done" /\ thr[t].result.status = "ok") =>
            thr[t].acts = thr[t].result.nodes

(***************************************************************************)
(* C9: the fallback branch of get_best_move (best_move is None) is never   *)
(* taken: the returned move comes from the scored comparison.              *)
(***************************************************************************)
C9_FallbackNotTaken ==
    \A t \in Threads : thr[t].pc = "done" => ~thr[t].result.fallback

\* a call returned whose best score is the lowest a position can get
C9_Witness ==
    \E t \in Threads : Returned(t) /\ thr[t].result.score = <<-20000, 100>>

(***************************************************************************)
(* C10: _evaluate returns -20000 for a checkmate with white to move,       *)
(* +20000 for a checkmate with black to move and 0 for a stalemate or an   *)
(* insufficient-material position, whatever the material and the number of *)
(* legal moves.                                                            *)
(***************************************************************************)
C10_TerminalScores ==
    \A t \in Threads :
        (thr[t].pc = "mm" /\ Top(t).pc = "return" /\ Top(t).leaf) =>
            LET b == thr[t].board IN
            /\ (IsCheckmate(b) /\ Turn(b) = WHITE) => Top(t).ret = -20000
            /\ (IsCheckmate(b) /\ Turn(b) = BLACK) => Top(t).ret = 20000
            /\ (IsStalemate(b) \/ IsInsufficientMaterial(b)) => Top(t).ret = 0

\* an insufficient-material position with material on the board and legal
\* moves was evaluated
C10_Witness ==
    \E t \in Threads :
        /\ thr[t].pc = "mm"
        /\ Top(t).pc = "return"
        /\ Top(t).leaf
        /\ IsInsufficientMaterial(thr[t].board)
        /\ MaterialScore(Pieces(thr[t].board)) # 0
        /\ Len(LegalMoves(thr[t].board)) > 0

(***************************************************************************)
(* C11: a _minimax activation with depth > 0 at a position that is not     *)
(* over and has no legal move fails with an internal search error: it      *)
(* returns no value to its caller, and get_best_move returns no move       *)
(* chosen from such a search.  [The code has no such check: both loops run *)
(* zero times and max_eval = -inf or min_eval = +inf is returned.]         *)
(***************************************************************************)
\* the position of the innermost activation of t is not over and has no move
AtStuck(t) ==
    /\ thr[t].pc = "mm"
    /\ Top(t).depth > 0
    /\ ~IsGameOver(thr[t].board)
    /\ Len(LegalMoves(thr[t].board)) = 0

C11_StuckPositionFails ==
    \A t \in Threads :
        \* the activation at a stuck position hands no value to its caller
        /\ AtStuck(t) => Top(t).pc # "return"
        \* no activation hands an infinite score to its caller
        /\ (thr[t].pc = "mm" /\ Top(t).pc = "return") =>
               Top(t).ret \notin {Inf, -Inf}
        \* no move is drawn by the fallback after such a search
        /\ Returned(t) => ~thr[t].result.fallback

(***************************************************************************)
(* C12: the root tie-break is first-seen-wins, also under pruning.  The    *)
(* true score of a root move is the score the root loop would receive for  *)
(* it with both cutoffs removed.                                           *)
(***************************************************************************)
\* the true score of the k-th root move of b for an engine of this depth
TrueScore(b, depth, k) == -FullValue(After(b, k), depth - 1, FALSE)

\* the earliest of the first n root moves whose true score is their best
FirstBest(b, depth, n) ==
    CHOOSE k \in 1..n :
        /\ \A j \in 1..n : TrueScore(b, depth, j) <= TrueScore(b, depth, k)
        /\ \A j \in 1..(k - 1) : TrueScore(b, depth, j) < TrueScore(b, depth, k)

\* thread t is at line 83 with the score of its i-th root move in hand
AtRootReceive(t) ==
    thr[t].pc = "mm" /\ Len(thr[t].frames) = 1 /\ Top(t).pc = "return"

\* the returned move is the earliest root move with the best true score
FirstBestReturned(t) ==
    Returned(t) =>
        ReturnedIndices(t) =
            {FirstBest(RootBoard(t), thr[t].result.depth,
                       Len(LegalMoves(RootBoard(t))))}

\* C12 as stated: first-seen wins, and the score received for a later root
\* move never strictly exceeds the score received for an earlier root move
\* whose true score is at least as good.
C12_LaterNeverExceedsEarlier ==
    \A t \in Threads :
        /\ FirstBestReturned(t)
        /\ \A k \in DOMAIN thr[t].scores : \A j \in 1..(k - 1) :
               TrueScore(RootBoard(t), engine.depth, j)
                       >= TrueScore(RootBoard(t), engine.depth, k)
                   => thr[t].scores[k] <= thr[t].scores[j]

\* C12, amended: first-seen wins; after every root move the best move is
\* the earliest move so far with the best true score and the best score is
\* that true score; the score received for a later root move strictly
\* exceeds the current best only when its true score strictly exceeds the
\* true score of every earlier move, and is then that true score.  (The
\* score received for a move that does not become the best can exceed the
\* score received for an earlier move that is not the best.)
C12_FirstBestMoveWins ==
    \A t \in Threads :
        /\ FirstBestReturned(t)
        /\ (thr[t].pc = "root" /\ thr[t].i > 1) =>
               LET k == FirstBest(thr[t].board, engine.depth, thr[t].i - 1) IN
               /\ thr[t].best_move = thr[t].legal_moves[k]
               /\ thr[t].best_score = TrueScore(thr[t].board, engine.depth, k)
        /\ (AtRootReceive(t) /\ thr[t].i > 1 /\ -Top(t).ret > thr[t].best_score) =>
               /\ -Top(t).ret = TrueScore(RootBoard(t), engine.depth, thr[t].i)
               /\ \A j \in 1..(thr[t].i - 1) :
                      TrueScore(RootBoard(t), engine.depth, j)
                          < TrueScore(RootBoard(t), engine.depth, thr[t].i)

\* a depth-3 call returned after a cutoff, and an earlier and a later root
\* move both have the best true score
C12_Witness ==
    \E t \in Threads :
        /\ Returned(t)
        /\ thr[t].result.nodes < FullRootCount(RootBoard(t), thr[t].result.depth)
        /\ LET b == RootBoard(t)
               d == thr[t].result.depth
               n == Len(LegalMoves(b))
           IN  \E k \in 1..n :
                   /\ k # FirstBest(b, d, n)
                   /\ TrueScore(b, d, k) = TrueScore(b, d, FirstBest(b, d, n))

====
